---- MODULE Spec2Model ----
(***************************************************************************)
(* Model of unified_platform_ultimate.py: the quota check (check_limits),  *)
(* the tool registry and its handlers, the persistence helpers and the     *)
(* ReAct turn run_agent_turn, driven by the two chat pages of main().      *)
(* The three sqlite tables are the shared state; every browser session is  *)
(* a process that runs turns against them.                                 *)
(***************************************************************************)
EXTENDS Integers, Sequences, FiniteSets, TLC

\* ---------------------------------------------------------------- bounds
MaxCalls == 2        \* tool calls in one model response, one open session
MaxCallsPair == 1    \* tool calls in one model response, two open sessions
MaxTurns == 2        \* turns submitted by the session, one open session
MaxTurnsPair == 1    \* turns submitted by each session, two open sessions
MaxCallsAdmin == 1   \* tool calls in one model response, dashboard in use
MaxTurnsAdmin == 2   \* turns submitted by the session, dashboard in use
MaxCallsTool == 1    \* tool calls in one model response, handler called too
MaxTurnsTool == 1    \* turns submitted by the session, handler called too
MaxDirect == 2       \* calls of execute_create_new_agent from outside a turn

Sessions == {1, 2}
Emails == {"ann", "eve"}          \* eve never gets a row in users
Plans == {"free", "pro", "gold"}  \* gold is no key of PLAN_LIMITS

NoRow == [plan |-> "none", agents_created |-> -1]

\* ------------------------------------------------------ program constants
PLAN_LIMITS ==
  [free |-> [agents |-> 1, messages |-> 50],
   pro  |-> [agents |-> 10, messages |-> 1000],
   vip  |-> [agents |-> 99999, messages |-> 99999]]

REGISTRY == {"get_current_time", "make_http_request", "create_new_agent"}

\* ToolRegistry.SCHEMAS, by name and in list order
SCHEMAS == <<"get_current_time", "make_http_request", "create_new_agent">>

\* the agent_id of the builder page; agent ids are numbers from 1
SYS_BUILDER == 0

\* builder_agent["enabled_tools"]
BuilderTools == << <<"create_new_agent">> >>

VARIABLES
  users,      \* table users: email -> row, or NoRow
  agents,     \* table agents: set of rows
  messages,   \* table messages, ordered by id
  nextId,     \* source of fresh agent ids
  sess,       \* st.session_state of every browser session
  turn,       \* the frame of run_agent_turn of every session
  cap,        \* what is explored: the logged-in sessions, longest
              \* tool_calls list of a response, turns of a session
  direct_call \* the last call of execute_create_new_agent made from
              \* outside a turn: its creator_email and what it returned

vars == <<users, agents, messages, nextId, sess, turn, cap, direct_call>>

\* ------------------------------------------------------------ sequences
\* SELECT role, content FROM messages WHERE agent_id=? ORDER BY id ASC
SelectRows(rows, agent_id) ==
  LET mine == SelectSeq(rows, LAMBDA r : r.agent_id = agent_id)
  IN [k \in 1..Len(mine) |-> [role |-> mine[k].role, content |-> mine[k].content]]

\* SELECT COUNT(*) FROM messages WHERE user_email=? AND role='user'
CountUser(rows, email) ==
  Cardinality({k \in 1..Len(rows) :
                 rows[k].user_email = email /\ rows[k].role = "user"})

\* ------------------------------------------------------------- utilities
\* get_user_status: the users row and the count of the user's user-role rows
get_user_status(email) ==
  IF users[email] = NoRow THEN NoRow
  ELSE [plan |-> users[email].plan,
        agents_used |-> users[email].agents_created,
        msgs_used |-> CountUser(messages, email)]

LimitsOf(plan) ==
  IF plan \in DOMAIN PLAN_LIMITS THEN PLAN_LIMITS[plan] ELSE PLAN_LIMITS["free"]

AgentLimitMsg == "agent limit reached"
MessageLimitMsg == "message limit reached"

\* the agent comparison written > where the code has >=
check_limits_off_by_one(email, action_type) ==
  LET status == get_user_status(email) IN
  IF status = NoRow THEN <<FALSE, "User not found">>
  ELSE LET limits == LimitsOf(status.plan) IN
       IF action_type = "create_agent" /\ status.agents_used > limits.agents
       THEN <<FALSE, AgentLimitMsg>>
       ELSE IF action_type = "send_message" /\ status.msgs_used >= limits.messages
       THEN <<FALSE, MessageLimitMsg>>
       ELSE <<TRUE, "OK">>

\* the message comparison written > where the code has >=
check_limits_one_more_message(email, action_type) ==
  LET status == get_user_status(email) IN
  IF status = NoRow THEN <<FALSE, "User not found">>
  ELSE LET limits == LimitsOf(status.plan) IN
       IF action_type = "create_agent" /\ status.agents_used >= limits.agents
       THEN <<FALSE, AgentLimitMsg>>
       ELSE IF action_type = "send_message" /\ status.msgs_used > limits.messages
       THEN <<FALSE, MessageLimitMsg>>
       ELSE <<TRUE, "OK">>

\* a user without a row is let through
check_limits_no_row_ok(email, action_type) ==
  LET status == get_user_status(email) IN
  IF status = NoRow THEN <<TRUE, "OK">>
  ELSE LET limits == LimitsOf(status.plan) IN
       IF action_type = "create_agent" /\ status.agents_used >= limits.agents
       THEN <<FALSE, AgentLimitMsg>>
       ELSE IF action_type = "send_message" /\ status.msgs_used >= limits.messages
       THEN <<FALSE, MessageLimitMsg>>
       ELSE <<TRUE, "OK">>

check_limits(email, action_type) ==
  LET status == get_user_status(email) IN
  IF status = NoRow THEN <<FALSE, "User not found">>
  ELSE LET limits == LimitsOf(status.plan) IN
       IF action_type = "create_agent" /\ status.agents_used >= limits.agents
       THEN <<FALSE, AgentLimitMsg>>
       ELSE IF action_type = "send_message" /\ status.msgs_used >= limits.messages
       THEN <<FALSE, MessageLimitMsg>>
       ELSE <<TRUE, "OK">>

load_chat_history(agent_id) == SelectRows(messages, agent_id)

\* tid stands for the text and timestamp of the row: the turn that wrote it
log_message(agent_id, user_email, role, content, tid) ==
  Append(messages, [agent_id |-> agent_id, user_email |-> user_email,
                    role |-> role, content |-> content, tid |-> tid])

\* ---------------------------------------------------------- tool registry
\* A tools_needed text is a sequence of tokens: names, "," and " ".
RECURSIVE SplitComma(_)
SplitComma(text) ==
  IF \A k \in 1..Len(text) : text[k] # "," THEN <<text>>
  ELSE LET k == CHOOSE j \in 1..Len(text) :
                  text[j] = "," /\ \A h \in 1..(j - 1) : text[h] # ","
       IN <<SubSeq(text, 1, k - 1)>> \o SplitComma(SubSeq(text, k + 1, Len(text)))

RECURSIVE Strip(_)
Strip(seg) ==
  IF seg = <<>> THEN <<>>
  ELSE IF Head(seg) = " " THEN Strip(Tail(seg))
  ELSE IF seg[Len(seg)] = " " THEN Strip(SubSeq(seg, 1, Len(seg) - 1))
  ELSE seg

\* tools = [t.strip() for t in tools_needed.split(',')] if tools_needed else []
ParseTools(tools_needed) ==
  IF tools_needed = <<>> THEN <<>>
  ELSE LET parts == SplitComma(tools_needed)
       IN [k \in 1..Len(parts) |-> Strip(parts[k])]

\* every schema is offered, whatever the agent has enabled
ActiveSchemasUnfiltered(enabled) == SCHEMAS

\* active_schemas: the schemas whose name is in enabled_tools; <<>> is None
ActiveSchemas(enabled) ==
  SelectSeq(SCHEMAS, LAMBDA n : \E k \in 1..Len(enabled) : enabled[k] = <<n>>)

\* Does handler(**args) bind? args "ok" carries every required parameter,
\* args "missing" lacks one; get_current_time(**kwargs) requires none.
Binds(func_name, args) == func_name = "get_current_time" \/ args = "ok"

\* execute_http_request: one requests.request inside try/except
execute_http_request(net) ==
  IF net = "up"
  THEN [result |-> "HTTP Status", attempts |-> 1]
  ELSE [result |-> "HTTP Request Error", attempts |-> 1]

execute_get_current_time == "TIME"

ErrorOf(msg) ==
  IF msg = AgentLimitMsg THEN "ERROR: agent limit reached"
  ELSE "ERROR: User not found"

\* save_agent_to_db: INSERT the row (fresh id), UPDATE the counter, one commit
save_agent_rows(creator, enabled_tools) ==
  agents \cup {[id |-> nextId, creator |-> creator, enabled_tools |-> enabled_tools]}

\* the row is inserted and the UPDATE of the counter is left out
save_agent_users_no_update(creator) == users

save_agent_users(creator) ==
  IF users[creator] = NoRow THEN users
  ELSE [users EXCEPT ![creator].agents_created = @ + 1]

\* ------------------------------------------------------------ the inputs
ToolNames == REGISTRY \cup {"send_email"}
ArgKinds == {"ok", "missing"}

\* (name, arguments) of one tool call; tools_needed is read by create_new_agent
CallChoices ==
  {[name |-> n, args |-> a,
    tools_needed |-> IF n = "create_new_agent" /\ a = "ok"
                     THEN <<"make_http_request", ",", " ", "gmail">> ELSE <<>>] :
     n \in ToolNames \ {"get_current_time"}, a \in ArgKinds}
  \cup {[name |-> "get_current_time", args |-> "ok", tools_needed |-> <<>>]}

\* msg.tool_calls of at most n calls; tool.id is the position in the list
WithIds(l) ==
  [j \in 1..Len(l) |-> [id |-> j, name |-> l[j].name, args |-> l[j].args,
                        tools_needed |-> l[j].tools_needed]]

ToolCallLists(n) ==
  {WithIds(l) : l \in UNION {[1..m -> CallChoices] : m \in 1..n}}

\* ------------------------------------------------------------ the frames
IdleFrame ==
  [pc |-> "idle", tid |-> 0, active |-> <<>>, messages |-> <<>>,
   tool_calls |-> <<>>, i |-> 0, tools |-> <<>>, content |-> "", result |-> "",
   model_calls |-> 0, offered |-> <<>>, invoked |-> <<>>, attempts |-> <<>>,
   outcome |-> ""]

ClosedSession ==
  [open |-> FALSE, email |-> "", agent_id |-> SYS_BUILDER, enabled |-> <<>>,
   hist |-> <<>>, turns |-> 0]

Entry(role, content, tool_call_id) ==
  [role |-> role, content |-> content, tool_call_id |-> tool_call_id]

\* history rows as transcript entries
AsEntries(history) ==
  [k \in 1..Len(history) |-> Entry(history[k].role, history[k].content, 0)]

\* line 326: [system] + history + [user]
AssembleContext(history) ==
  <<Entry("system", "persona", 0)>> \o AsEntries(history) \o <<Entry("user", "q", 0)>>

\* the except clause of run_agent_turn
Raise(f) ==
  [f EXCEPT !.pc = "returned", !.result = "System Critical Error",
            !.outcome = "aborted"]

\* an exception raised before the try of line 328 leaves run_agent_turn
Escape(f) == [f EXCEPT !.pc = "raised", !.outcome = "escaped"]

\* the loop walks the list from its end
CurrentCallReversed(f) == f.tool_calls[Len(f.tool_calls) + 1 - f.i]

\* line 345: the tool the for loop is at
CurrentCall(f) == f.tool_calls[f.i]

\* line 362 and the loop header: append the observation, take the next call
Observe(f, result) ==
  [f EXCEPT !.messages = Append(@, Entry("tool", result, CurrentCall(f).id)),
            !.i = @ + 1,
            !.pc = IF f.i + 1 > Len(f.tool_calls) THEN "synthesis" ELSE "acting"]

\* the handlers entered in this turn, with the id of the call
Invoke(f, handler) == [f EXCEPT !.invoked = Append(@, <<CurrentCall(f).id, handler>>)]

\* -------------------------------------------------------------- the state
\* A stored log with k user rows of ann, written by earlier turns on the
\* builder page and, when ann has an agent, by turns with that agent: its
\* last 25 rows are 13 questions to agent 1 and the 12 answers (the last turn
\* was aborted before its answer).
StoredLog(k, na) ==
  LET chat == IF na = 0 \/ k = 0 THEN 0 ELSE 25
      total == IF chat = 0 THEN 2 * k ELSE 2 * k - 1
  IN [j \in 1..total |->
        [agent_id |-> IF j > total - chat THEN 1 ELSE SYS_BUILDER,
         user_email |-> "ann",
         role |-> IF j % 2 = 1 THEN "user" ELSE "assistant",
         content |-> IF j % 2 = 1 THEN "q" ELSE "answer", tid |-> 0]]

\* stored user messages: none, one below the free limit, at the free limit
StoredCounts ==
  {0, PLAN_LIMITS["free"].messages - 1, PLAN_LIMITS["free"].messages}

StoredTools == {<<>>, << <<"get_current_time">>, <<"make_http_request">> >>}

NoCall == [n |-> 0, creator_email |-> "", result |-> ""]

\* the database file as earlier runs left it: ann on one of plans, with one
\* of nas agents
InitTables(plans, nas) ==
  /\ \E plan \in plans, na \in nas, k \in StoredCounts, tools \in StoredTools :
       /\ na = 0 => tools = <<>>
       /\ users = [e \in Emails |->
                     IF e = "ann" THEN [plan |-> plan, agents_created |-> na]
                     ELSE NoRow]
       /\ agents = {[id |-> j, creator |-> "ann", enabled_tools |-> tools] : j \in 1..na}
       /\ messages = StoredLog(k, na)
       /\ nextId = na + 1
  /\ sess = [s \in Sessions |-> ClosedSession]
  /\ turn = [s \in Sessions |-> IdleFrame]
  /\ direct_call = NoCall

\* one browser session, of a user with or without a row
Init ==
  /\ InitTables(Plans, {0, 1})
  /\ \E e \in Emails :
       cap = [login |-> [s \in Sessions |-> IF s = 1 THEN e ELSE ""],
              calls |-> MaxCalls, turns |-> MaxTurns]

\* two browser sessions of the same user
InitPair ==
  /\ InitTables({"free"}, {0})
  /\ cap = [login |-> [s \in Sessions |-> "ann"],
            calls |-> MaxCallsPair, turns |-> MaxTurnsPair]

\* one browser session of ann, the dashboard open in another
InitAdmin ==
  /\ InitTables({"free"}, {0, 1})
  /\ cap = [login |-> [s \in Sessions |-> IF s = 1 THEN "ann" ELSE ""],
            calls |-> MaxCallsAdmin, turns |-> MaxTurnsAdmin]

\* ------------------------------------------------------------ the actions
TablesUnchanged == UNCHANGED <<users, agents, messages, nextId>>
EnvUnchanged == UNCHANGED <<cap, direct_call>>

\* main(): the builder page (lines 463-476) or the chat page (lines 490-499)
OpenPage(s) ==
  /\ cap.login[s] # "" /\ ~sess[s].open
  /\ LET email == cap.login[s] IN
       \/ sess' = [sess EXCEPT ![s] =
                     [open |-> TRUE, email |-> email, agent_id |-> SYS_BUILDER,
                      enabled |-> BuilderTools, hist |-> <<>>, turns |-> 0]]
       \/ \E a \in agents :
            /\ a.creator = email
            /\ sess' = [sess EXCEPT ![s] =
                          [open |-> TRUE, email |-> email, agent_id |-> a.id,
                           enabled |-> a.enabled_tools,
                           hist |-> load_chat_history(a.id), turns |-> 0]]
  /\ UNCHANGED turn /\ TablesUnchanged /\ EnvUnchanged

\* main(): lines 480-484 and 505-509, up to the call of run_agent_turn
SubmitMessage(s) ==
  /\ sess[s].open /\ turn[s].pc = "idle" /\ sess[s].turns < cap.turns
  /\ sess' = [sess EXCEPT ![s].hist = Append(@, [role |-> "user", content |-> "q"]),
                          ![s].turns = @ + 1]
  /\ turn' = [turn EXCEPT ![s] =
                [IdleFrame EXCEPT !.pc = "check",
                                  !.tid = 10 * s + sess[s].turns + 1]]
  /\ TablesUnchanged /\ EnvUnchanged

\* the result of the check is not looked at
GateOpen(f, email) == [f EXCEPT !.pc = "log_user"]

\* lines 310-311
Gate(f, email) ==
  LET c == check_limits(email, "send_message") IN
  IF ~c[1]
  THEN [f EXCEPT !.pc = "returned", !.result = c[2], !.outcome = "rejected"]
  ELSE [f EXCEPT !.pc = "log_user"]

CheckLimits(s) ==
  /\ turn[s].pc = "check"
  /\ turn' = [turn EXCEPT ![s] = Gate(@, sess[s].email)]
  /\ UNCHANGED sess /\ TablesUnchanged /\ EnvUnchanged

\* the history argument of run_agent_turn: the session history without the
\* message just appended (lines 484 and 509); the session does not touch its
\* history while the turn runs
HistoryArg(s) == SubSeq(sess[s].hist, 1, Len(sess[s].hist) - 1)

\* lines 314-326
Setup(f, enabled, history) ==
  [f EXCEPT !.pc = "reasoning", !.active = ActiveSchemas(enabled),
            !.messages = AssembleContext(history)]

\* log_message commits its row, or raises (database locked, disk full) and
\* leaves no row; line 314 is outside the try
LogUser(s) ==
  /\ turn[s].pc = "log_user"
  /\ \/ /\ messages' = log_message(sess[s].agent_id, sess[s].email, "user", "q",
                                   turn[s].tid)
        /\ turn' = [turn EXCEPT ![s] = Setup(@, sess[s].enabled, HistoryArg(s))]
     \/ /\ messages' = messages
        /\ turn' = [turn EXCEPT ![s] = Escape(@)]
  /\ UNCHANGED <<users, agents, nextId, sess>> /\ EnvUnchanged

\* lines 333-343 and the else branch of 370: the first model call
FirstResponse(f, kind, calls) ==
  LET g == [f EXCEPT !.model_calls = @ + 1, !.offered = Append(@, f.active)] IN
  IF kind = "raise" THEN Raise(g)
  ELSE IF kind = "content"
  THEN [g EXCEPT !.pc = "log_answer", !.content = "answer"]
  ELSE [g EXCEPT !.pc = "acting", !.tool_calls = calls, !.i = 1,
                 !.messages = Append(@, Entry("assistant", "tool_calls", 0))]

\* The completion carries tool_calls only when tools were offered (line 336).
Reason1(s) ==
  /\ turn[s].pc = "reasoning"
  /\ \/ \E kind \in {"raise", "content"} :
          turn' = [turn EXCEPT ![s] = FirstResponse(@, kind, <<>>)]
     \/ /\ turn[s].active # <<>>
        /\ \E calls \in ToolCallLists(cap.calls) :
             turn' = [turn EXCEPT ![s] = FirstResponse(@, "tools", calls)]
  /\ UNCHANGED sess /\ TablesUnchanged /\ EnvUnchanged

\* lines 345-362 for one tool of the loop; create_new_agent runs up to its
\* quota check (lines 224-227), the save is the next step
\* a lookup REGISTRY[func_name] with no membership test raises KeyError
DispatchUnknownKeyError(f) == Raise(f)

DispatchUnknown(f) == Observe(f, "Error: Tool not found")

DispatchCall(f, email, net) ==
  LET call == CurrentCall(f) IN
  IF call.name = "create_new_agent"
  THEN IF ~Binds(call.name, call.args) THEN Raise(f)
       ELSE LET c == check_limits(email, "create_agent")
                g == Invoke(f, "execute_create_new_agent")
            IN IF ~c[1] THEN Observe(g, ErrorOf(c[2]))
               ELSE [g EXCEPT !.pc = "create_save",
                              !.tools = ParseTools(call.tools_needed)]
  ELSE IF call.name \in REGISTRY
  THEN IF ~Binds(call.name, call.args) THEN Raise(f)
       ELSE IF call.name = "get_current_time"
       THEN Observe(Invoke(f, "execute_get_current_time"), execute_get_current_time)
       ELSE LET r == execute_http_request(net)
            IN Observe([Invoke(f, "execute_http_request") EXCEPT
                          !.attempts = Append(@, <<call.id, r.attempts>>)], r.result)
  ELSE DispatchUnknown(f)

Dispatch(s) ==
  /\ turn[s].pc = "acting"
  /\ \E net \in {"up", "down"} :
       turn' = [turn EXCEPT ![s] = DispatchCall(@, sess[s].email, net)]
  /\ UNCHANGED sess /\ TablesUnchanged /\ EnvUnchanged

\* lines 243-254 with save_agent_to_db (lines 270-279)
CreateSave(s) ==
  /\ turn[s].pc = "create_save"
  /\ agents' = save_agent_rows(sess[s].email, turn[s].tools)
  /\ users' = save_agent_users(sess[s].email)
  /\ nextId' = nextId + 1
  /\ turn' = [turn EXCEPT ![s] = Observe([@ EXCEPT !.tools = <<>>], "SUCCESS")]
  /\ UNCHANGED <<messages, sess>> /\ EnvUnchanged

\* the second response is treated like the first: reasoning starts over
SecondResponseLoops(f, kind) ==
  [f EXCEPT !.model_calls = @ + 1, !.pc = "reasoning"]

\* lines 365-366: the second model call, with no tools offered
SecondResponse(f, kind) ==
  LET g == [f EXCEPT !.model_calls = @ + 1, !.offered = Append(@, <<>>)] IN
  IF kind = "raise" THEN Raise(g)
  ELSE [g EXCEPT !.pc = "log_answer", !.content = "answer"]

Synthesis(s) ==
  /\ turn[s].pc = "synthesis"
  /\ \E kind \in {"raise", "content"} :
       turn' = [turn EXCEPT ![s] = SecondResponse(@, kind)]
  /\ UNCHANGED sess /\ TablesUnchanged /\ EnvUnchanged

\* the answer is logged, and the turn stays where it logs the answer
AnsweredAgain(f) == [f EXCEPT !.result = f.content, !.outcome = "done"]

\* lines 367-368 and 372-373
Answered(f) ==
  [f EXCEPT !.pc = "returned", !.result = f.content, !.outcome = "done"]

\* lines 367 and 372 are inside the try: a raise of log_message is caught
LogAnswer(s) ==
  /\ turn[s].pc = "log_answer"
  /\ \/ /\ messages' = log_message(sess[s].agent_id, sess[s].email, "assistant",
                                   turn[s].content, turn[s].tid)
        /\ turn' = [turn EXCEPT ![s] = Answered(@)]
     \/ /\ messages' = messages
        /\ turn' = [turn EXCEPT ![s] = Raise(@)]
  /\ UNCHANGED <<users, agents, nextId, sess>> /\ EnvUnchanged

\* main(): lines 485-486 and 510-511
Return(s) ==
  /\ turn[s].pc = "returned"
  /\ sess' = [sess EXCEPT ![s].hist =
                 Append(@, [role |-> "assistant", content |-> turn[s].result])]
  /\ turn' = [turn EXCEPT ![s] = IdleFrame]
  /\ TablesUnchanged /\ EnvUnchanged

\* main(): the exception ends the script run at lines 484 and 509; the
\* session history keeps the user message and gets no reply
Unwind(s) ==
  /\ turn[s].pc = "raised"
  /\ turn' = [turn EXCEPT ![s] = IdleFrame]
  /\ UNCHANGED sess /\ TablesUnchanged /\ EnvUnchanged

\* the UPDATE also writes agents_created, from a row read as empty
save_changes_resets(e, plan) ==
  [users EXCEPT ![e] = [plan |-> plan, agents_created |-> 0]]

\* line 398: UPDATE users SET plan=?, is_approved=? WHERE email=?
save_changes(e, plan) == [users EXCEPT ![e].plan = plan]

\* show_ceo_dashboard: lines 395-400, one edited plan cell
SaveChanges ==
  /\ \E e \in Emails, plan \in Plans :
       /\ users[e] # NoRow /\ users[e].plan # plan
       /\ users' = save_changes(e, plan)
  /\ UNCHANGED <<agents, messages, nextId, sess, turn, cap, direct_call>>

TurnsNext ==
  \/ \E s \in Sessions : OpenPage(s)
  \/ \E s \in Sessions : SubmitMessage(s)
  \/ \E s \in Sessions : CheckLimits(s)
  \/ \E s \in Sessions : LogUser(s)
  \/ \E s \in Sessions : Reason1(s)
  \/ \E s \in Sessions : Dispatch(s)
  \/ \E s \in Sessions : CreateSave(s)
  \/ \E s \in Sessions : Synthesis(s)
  \/ \E s \in Sessions : LogAnswer(s)
  \/ \E s \in Sessions : Return(s)
  \/ \E s \in Sessions : Unwind(s)

Next == TurnsNext \/ SaveChanges

\* one session, the plan tiers left alone
Spec == Init /\ [][TurnsNext]_vars

\* two sessions of one user, the plan tiers left alone
SpecPair == InitPair /\ [][TurnsNext]_vars

\* one session and the dashboard
SpecAdmin == InitAdmin /\ [][Next]_vars

\* one browser session, of a user with or without a row, and a caller of
\* the handler
InitTool ==
  /\ InitTables({"free"}, {0, 1})
  /\ \E e \in Emails :
       cap = [login |-> [s \in Sessions |-> IF s = 1 THEN e ELSE ""],
              calls |-> MaxCallsTool, turns |-> MaxTurnsTool,
              direct |-> MaxDirect]

\* the tools_needed texts of a call: absent, or two names
ToolsNeededTexts == {<<>>, <<"make_http_request", ",", " ", "gmail">>}

\* ToolRegistry.execute_create_new_agent(name, personality, goal,
\* creator_email, tools_needed), lines 223-254, called on its own with any
\* creator_email: the check, then the save and its commit
CallCreate ==
  /\ direct_call.n < cap.direct
  /\ \E creator_email \in Emails, tools_needed \in ToolsNeededTexts :
       LET c == check_limits(creator_email, "create_agent") IN
       IF ~c[1]
       THEN /\ direct_call' = [n |-> direct_call.n + 1, creator_email |-> creator_email,
                        result |-> ErrorOf(c[2])]
            /\ UNCHANGED <<users, agents, nextId>>
       ELSE /\ agents' = save_agent_rows(creator_email, ParseTools(tools_needed))
            /\ users' = save_agent_users(creator_email)
            /\ nextId' = nextId + 1
            /\ direct_call' = [n |-> direct_call.n + 1, creator_email |-> creator_email,
                        result |-> "SUCCESS"]
  /\ UNCHANGED <<messages, sess, turn, cap>>

ToolNext == TurnsNext \/ CallCreate

SpecTool == InitTool /\ [][ToolNext]_vars

\* ------------------------------------------------------------- the claims
ToolEntries(f) == SelectSeq(f.messages, LAMBDA m : m.role = "tool")

RowsOf(tid, role) ==
  {k \in 1..Len(messages) : messages[k].tid = tid /\ messages[k].role = role}

\* the turn ended in the except clause while the loop was at a tool
AbortedAtTool(f) ==
  f.pc = "returned" /\ f.outcome = "aborted" /\ f.i \in 1..Len(f.tool_calls)

\* C1: a tool call whose name is not in REGISTRY gets the observation
\* "Error: Tool not found" under its own id, enters no handler and does not
\* end the turn, whatever its arguments.
UnknownToolRejected ==
  \A s \in Sessions :
    LET f == turn[s]
        obs == ToolEntries(f)
    IN \A j \in 1..Len(f.tool_calls) :
         f.tool_calls[j].name \notin REGISTRY =>
           /\ \A k \in 1..Len(f.invoked) : f.invoked[k][1] # f.tool_calls[j].id
           /\ j < f.i =>
                /\ Len(obs) >= j
                /\ obs[j] = Entry("tool", "Error: Tool not found", f.tool_calls[j].id)
           /\ ~(AbortedAtTool(f) /\ f.i = j)

\* an unregistered call with malformed arguments was observed, a call follows
UnknownToolObserved ==
  \E s \in Sessions :
    LET f == turn[s] IN
    /\ f.pc = "acting" /\ f.i = 2
    /\ f.tool_calls[1].name \notin REGISTRY /\ f.tool_calls[1].args = "missing"
    /\ ToolEntries(f)[1].content = "Error: Tool not found"

\* steps a turn can still take, at most
Rank(f) ==
  CASE f.pc = "idle" -> 0
    [] f.pc = "returned" -> 1
    [] f.pc = "raised" -> 1
    [] f.pc = "log_answer" -> 2
    [] f.pc = "synthesis" -> 3
    [] f.pc = "create_save" -> 4 + 2 * (Len(f.tool_calls) - f.i)
    [] f.pc = "acting" -> 5 + 2 * (Len(f.tool_calls) - f.i)
    [] f.pc = "reasoning" -> 4 + 2 * cap.calls
    [] f.pc = "log_user" -> 5 + 2 * cap.calls
    [] f.pc = "check" -> 6 + 2 * cap.calls

TurnStep(s) ==
  \/ CheckLimits(s) \/ LogUser(s) \/ Reason1(s) \/ Dispatch(s) \/ CreateSave(s)
  \/ Synthesis(s) \/ LogAnswer(s) \/ Return(s) \/ Unwind(s)

\* C2: whatever the model answers, a turn makes at most max_iterations + 1
\* model calls, for every cap from the one Acting phase of the code to the
\* documented 5, and it ends: a running turn can always step, and every step
\* of it lowers the number of steps it can still take.
TurnTerminates ==
  /\ [](\A s \in Sessions : \A max_iterations \in 1..5 :
          turn[s].model_calls <= max_iterations + 1)
  /\ [](\A s \in Sessions : turn[s].pc # "idle" => ENABLED TurnStep(s))
  /\ [][\A s \in Sessions :
          (turn[s].pc # "idle" /\ turn'[s] # turn[s]) =>
            Rank(turn'[s]) < Rank(turn[s])]_vars

\* a turn whose model asked for the longest list of tools is done after the
\* second model call
TurnDoneAfterTools ==
  \E s \in Sessions :
    /\ turn[s].pc = "returned" /\ turn[s].outcome = "done"
    /\ turn[s].model_calls = 2 /\ Len(turn[s].tool_calls) = cap.calls

\* C3: a create_new_agent call dispatched while the creator's agents_created
\* has reached the agent limit of the creator's plan writes no agents row,
\* moves no counter and never reaches the save; with well-formed arguments
\* its observation is the limit error. Rows are written by the save only.
CreateAtLimitRejected ==
  [][/\ \A s \in Sessions :
          LET f == turn[s]
              e == sess[s].email
          IN (/\ f.pc = "acting" /\ turn'[s] # f
              /\ CurrentCall(f).name = "create_new_agent"
              /\ users[e] # NoRow
              /\ users[e].agents_created >= LimitsOf(users[e].plan).agents)
             => /\ agents' = agents /\ users' = users
                /\ turn'[s].pc # "create_save"
                /\ CurrentCall(f).args = "ok" =>
                     /\ turn'[s].pc \in {"acting", "synthesis"}
                     /\ turn'[s].messages =
                          Append(f.messages,
                                 Entry("tool", "ERROR: agent limit reached",
                                       CurrentCall(f).id))
     /\ agents' # agents =>
          \E s \in Sessions : turn[s].pc = "create_save" /\ turn'[s] # turn[s]
    ]_vars

\* plan free: the first create of a response made the one agent, the second
\* create of the same response was rejected, one row and a counter of 1
SecondCreateRejected ==
  \E s \in Sessions :
    LET f == turn[s]
        obs == ToolEntries(f)
    IN /\ sess[s].email = "ann" /\ users["ann"].plan = "free"
       /\ users["ann"].agents_created = 1 /\ Cardinality(agents) = 1
       /\ Len(obs) = 2
       /\ f.tool_calls[1].name = "create_new_agent" /\ obs[1].content = "SUCCESS"
       /\ f.tool_calls[2].name = "create_new_agent"
       /\ obs[2].content = "ERROR: agent limit reached"

\* C4: in every interleaving of two turns of one user, the plan left alone,
\* neither the agents counter nor the count of user messages exceeds the
\* limit of the user's plan.
QuotaNeverOvershoots ==
  \A e \in Emails :
    users[e] # NoRow =>
      /\ users[e].agents_created <= LimitsOf(users[e].plan).agents
      /\ CountUser(messages, e) <= LimitsOf(users[e].plan).messages

\* C5: the user row of a turn is in the log before the first model call; the
\* assistant row is written once, when and only when the turn has its final
\* answer, after the user row and with the returned text; no turn ever has
\* two user rows, two assistant rows or an assistant row without a user row.
PersistenceDiscipline ==
  LET written == {k \in 1..Len(messages) : messages[k].tid # 0}
      Of(tid, role) ==
        {k \in written : messages[k].tid = tid /\ messages[k].role = role}
  IN /\ \A s \in Sessions :
          LET f == turn[s]
              U == Of(f.tid, "user")
              A == Of(f.tid, "assistant")
          IN f.tid # 0 =>
               /\ f.model_calls > 0 => Cardinality(U) = 1
               /\ A # {} <=> (f.pc = "returned" /\ f.outcome = "done")
               /\ \A a \in A : messages[a].content = f.result
     /\ \A tid \in {messages[k].tid : k \in written} :
          /\ Cardinality(Of(tid, "user")) = 1
          /\ Cardinality(Of(tid, "assistant")) <= 1
          /\ \A u \in Of(tid, "user"), a \in Of(tid, "assistant") : u < a

\* a turn that went through the tool loop ended done with its one answer row
AnswerPersistedOnce ==
  \E s \in Sessions :
    /\ turn[s].pc = "returned" /\ turn[s].outcome = "done"
    /\ turn[s].model_calls = 2
    /\ Cardinality(RowsOf(turn[s].tid, "assistant")) = 1

\* C6: the transcript handed to the first model call holds at most 20
\* history messages between the system message and the new user message.
HistoryWindowed ==
  \A s \in Sessions :
    turn[s].pc = "reasoning" => Len(turn[s].messages) - 2 <= 20

\* C7: no failure of a tool ends the turn: a turn is never in the except
\* clause while its loop is at a tool.
ToolFailureObserved ==
  \A s \in Sessions : ~AbortedAtTool(turn[s])

\* C8: one call of the network tool makes at most 3 requests, and its
\* failure observation is returned after exactly 3 requests.
ThreeAttempts ==
  \A s \in Sessions :
    LET f == turn[s]
        obs == ToolEntries(f)
    IN \A k \in 1..Len(f.attempts) :
         /\ f.attempts[k][2] <= 3
         /\ \A j \in 1..Len(obs) :
              (obs[j].tool_call_id = f.attempts[k][1]
               /\ obs[j].content = "HTTP Request Error") => f.attempts[k][2] = 3

\* C9: a turn whose send_message check fails returns the message of the
\* check as its result, having made no model call and written no row.
GateBeforeModel ==
  [][\A s \in Sessions :
       LET f == turn[s]
           c == check_limits(sess[s].email, "send_message")
       IN (f.pc = "check" /\ turn'[s] # f /\ ~c[1]) =>
            /\ turn'[s].pc = "returned" /\ turn'[s].result = c[2]
            /\ turn'[s].model_calls = 0
            /\ messages' = messages
    ]_vars

\* a turn was turned away with the message-limit text and no model call
TurnedAwayAtLimit ==
  \E s \in Sessions :
    /\ turn[s].pc = "returned" /\ turn[s].result = MessageLimitMsg
    /\ turn[s].model_calls = 0
    /\ CountUser(messages, sess[s].email) >= LimitsOf(users[sess[s].email].plan).messages

\* C10: the tool entries of the transcript are its last entries, one for each
\* call the loop has passed, in the order of msg.tool_calls; and a handler is
\* entered for a call only when every earlier call has its entry.
SequentialDispatch ==
  /\ [](\A s \in Sessions :
          LET f == turn[s]
              obs == ToolEntries(f)
              n == Len(f.messages)
          IN /\ Len(obs) = (IF f.i = 0 THEN 0 ELSE f.i - 1)
             /\ \A j \in 1..Len(obs) :
                  /\ obs[j].tool_call_id = f.tool_calls[j].id
                  /\ f.messages[n - Len(obs) + j] = obs[j])
  /\ [][\A s \in Sessions :
          Len(turn'[s].invoked) = Len(turn[s].invoked) + 1 =>
            LET id == turn'[s].invoked[Len(turn'[s].invoked)][1] IN
            /\ Len(ToolEntries(turn[s])) = id - 1
            /\ turn[s].tool_calls[id].name \in REGISTRY
    ]_vars

\* two different tools of one response were observed, the first before the
\* second
TwoObservationsInOrder ==
  \E s \in Sessions :
    LET f == turn[s]
        obs == ToolEntries(f)
    IN /\ f.pc = "synthesis" /\ Len(obs) = 2
       /\ f.tool_calls[1].name = "make_http_request" /\ obs[1].content = "HTTP Status"
       /\ f.tool_calls[2].name = "get_current_time" /\ obs[2].content = "TIME"

\* C12: a call of a registered tool whose arguments lack a required field
\* enters no handler, gets an InvalidArguments observation under its id, and
\* the loop goes on to the next call or to the next model call.
ArgumentsValidated ==
  [][\A s \in Sessions :
       LET f == turn[s] IN
       (/\ f.pc = "acting" /\ turn'[s] # f
        /\ CurrentCall(f).name \in REGISTRY
        /\ ~Binds(CurrentCall(f).name, CurrentCall(f).args))
       => /\ turn'[s].invoked = f.invoked
          /\ turn'[s].pc \in {"acting", "synthesis"}
          /\ turn'[s].messages =
               Append(f.messages,
                      Entry("tool", "InvalidArguments", CurrentCall(f).id))
    ]_vars

\* C13: a turn with an agent of no enabled tools offers no schemas to any
\* model call, gets no tool call and enters no handler; its first model call
\* is its last, and a turn that ends without a failure is done after that
\* one call.
NoToolsNoDispatch ==
  \A s \in Sessions :
    LET f == turn[s] IN
    (sess[s].open /\ sess[s].enabled = <<>> /\ f.pc # "idle") =>
      /\ \A k \in 1..Len(f.offered) : f.offered[k] = <<>>
      /\ f.tool_calls = <<>> /\ f.invoked = <<>>
      /\ f.pc \notin {"acting", "create_save", "synthesis"}
      /\ f.model_calls <= 1
      /\ f.model_calls = 1 => f.pc \in {"log_answer", "returned"}
      /\ (f.pc = "returned" /\ f.outcome = "done") => f.model_calls = 1

\* a turn with a stored agent of no tools is done after one model call that
\* was offered nothing
PlainAgentDone ==
  \E s \in Sessions :
    /\ sess[s].agent_id # SYS_BUILDER /\ sess[s].enabled = <<>>
    /\ turn[s].pc = "returned" /\ turn[s].outcome = "done"
    /\ turn[s].model_calls = 1 /\ turn[s].offered = << <<>> >>

\* C14: a model call that fails is the last step of its turn but for the
\* return, and a log_message that fails likewise: the turn is at its return
\* with the failure text as its result; an aborted turn has no assistant row.
FailureAborts ==
  /\ [][\A s \in Sessions :
          LET f == turn[s] IN
          /\ (/\ f.pc \in {"reasoning", "synthesis"}
              /\ turn'[s].model_calls = f.model_calls + 1
              /\ turn'[s].content = ""
              /\ f.pc = "reasoning" => turn'[s].tool_calls = <<>>)
             => /\ turn'[s].pc = "returned"
                /\ turn'[s].result = "System Critical Error"
          /\ (/\ f.pc \in {"log_user", "log_answer"}
              /\ turn'[s] # f /\ messages' = messages)
             => /\ turn'[s].pc = "returned"
                /\ turn'[s].result = "System Critical Error"
       ]_vars
  /\ [](\A s \in Sessions :
          turn[s].outcome \in {"aborted", "escaped"} =>
            RowsOf(turn[s].tid, "assistant") = {})

\* C15: every name in the enabled_tools of a stored agent is a key of
\* REGISTRY.
EnabledToolsRegistered ==
  \A a \in agents :
    \A k \in 1..Len(a.enabled_tools) :
      \E n \in REGISTRY : a.enabled_tools[k] = <<n>>

AgentsOf(e) == {a \in agents : a.creator = e}

\* C16: no step lowers a user's agents_created or the number of the user's
\* user messages, and no step removes a users row; a step that changes a
\* plan changes nothing else of the three tables.
CountersMonotonic ==
  [][/\ \A e \in Emails :
          users[e] # NoRow =>
            /\ users'[e] # NoRow
            /\ users'[e].agents_created >= users[e].agents_created
            /\ CountUser(messages', e) >= CountUser(messages, e)
            /\ users'[e].plan # users[e].plan =>
                 /\ users'[e].agents_created = users[e].agents_created
                 /\ messages' = messages /\ agents' = agents
     ]_vars

\* the plan went up, a turn made the second agent, the plan went down
\* again: the counter stays at 2, above the limit of the plan
PlanLoweredCounterKept ==
  /\ users["ann"].plan = "free" /\ users["ann"].agents_created = 2
  /\ Cardinality(AgentsOf("ann")) = 2
  /\ \E k \in 1..Len(messages) : messages[k].tid # 0

\* C17: the model call after the tool loop gets the observation of every
\* call of the loop and is offered the schemas the first call was offered.
ToolsOfferedAgain ==
  \A s \in Sessions :
    LET f == turn[s] IN
    Len(f.offered) >= 2 =>
      /\ Len(ToolEntries(f)) = Len(f.tool_calls)
      /\ f.offered[2] = f.active

\* the last 20 entries of a history
Window(h) == SubSeq(h, IF Len(h) > 20 THEN Len(h) - 19 ELSE 1, Len(h))

\* C18: when a turn is about to make its first model call, the history part
\* of its transcript, within the window, is the stored log of the agent as
\* it was before the user row of this turn, within the window.
HistoryFromLog ==
  \A s \in Sessions :
    LET f == turn[s]
        log == load_chat_history(sess[s].agent_id)
    IN (f.pc = "reasoning" /\ f.model_calls = 0) =>
         Window(SubSeq(f.messages, 2, Len(f.messages) - 1))
           = Window(AsEntries(SubSeq(log, 1, Len(log) - 1)))

\* C19: the user messages of a user never outnumber the message limit of
\* the user's plan, and a user row is written only when the rows counted
\* before it are fewer than the limit.
SequentialQuotaHolds ==
  /\ [](\A e \in Emails :
          users[e] # NoRow =>
            CountUser(messages, e) <= LimitsOf(users[e].plan).messages)
  /\ [][\A s \in Sessions :
          (turn[s].pc = "log_user" /\ messages' # messages) =>
            CountUser(messages, sess[s].email)
              < LimitsOf(users[sess[s].email].plan).messages]_vars

\* a turn wrote the message that reached the limit and the next turn of
\* the session was turned away
LimitReachedThenRejected ==
  \E s \in Sessions :
    /\ sess[s].open /\ users[sess[s].email] # NoRow
    /\ CountUser(messages, sess[s].email)
         = LimitsOf(users[sess[s].email].plan).messages
    /\ \E k \in 1..Len(messages) :
         messages[k].role = "user" /\ messages[k].tid # 0
    /\ turn[s].pc = "returned" /\ turn[s].outcome = "rejected"
    /\ sess[s].turns = 2

\* C20: a step that changes the agents table adds one row, of the user of
\* the saving turn, and adds 1 to that user's agents_created; no other step
\* changes a counter; a create that is turned away changes neither; so the
\* rows of a user are never more than the user's counter.
CounterTracksRows ==
  /\ [](\A e \in Emails :
          IF users[e] = NoRow THEN AgentsOf(e) = {}
          ELSE Cardinality(AgentsOf(e)) <= users[e].agents_created)
  /\ [][/\ agents' # agents =>
             \E s \in Sessions :
               LET e == sess[s].email IN
               /\ turn[s].pc = "create_save"
               /\ \E a \in agents' \ agents :
                    a.creator = e /\ agents' = agents \cup {a}
               /\ users' = [users EXCEPT ![e].agents_created = @ + 1]
        /\ agents' = agents => users' = users
        /\ \A s \in Sessions :
             (turn[s].pc = "acting" /\ turn'[s] # turn[s]) =>
               agents' = agents /\ users' = users
       ]_vars

\* one response with two creates, both saved: two rows and a counter of 2
TwoAgentsCounted ==
  \E s \in Sessions :
    LET e == sess[s].email IN
    /\ turn[s].pc = "synthesis" /\ Len(turn[s].invoked) = 2
    /\ users[e].agents_created = 2 /\ Cardinality(AgentsOf(e)) = 2
    /\ \A k \in 1..2 : ToolEntries(turn[s])[k].content = "SUCCESS"

\* C21: for a user with no row in users, a turn is turned away at its check
\* with "User not found", no model call and the log as it was, and a call
\* of the agent-creation handler, from a turn or on its own, returns
\* "ERROR: User not found" with agents and users as they were; no row of the
\* log or of agents ever belongs to such a user.
NoRowRejected ==
  /\ [][/\ \A s \in Sessions :
             LET f == turn[s] IN
             /\ (/\ f.pc = "check" /\ turn'[s] # f
                 /\ users[sess[s].email] = NoRow)
                => /\ turn'[s].pc = "returned"
                   /\ turn'[s].result = "User not found"
                   /\ turn'[s].model_calls = 0
                   /\ messages' = messages
             /\ (/\ f.pc = "acting" /\ turn'[s] # f
                 /\ CurrentCall(f).name = "create_new_agent"
                 /\ CurrentCall(f).args = "ok"
                 /\ users[sess[s].email] = NoRow)
                => /\ ToolEntries(turn'[s])[f.i].content = "ERROR: User not found"
                   /\ agents' = agents /\ users' = users
        /\ (direct_call' # direct_call /\ users[direct_call'.creator_email] = NoRow)
           => /\ direct_call'.result = "ERROR: User not found"
              /\ agents' = agents /\ users' = users /\ messages' = messages
       ]_vars
  /\ [](\A e \in Emails :
          users[e] = NoRow =>
            /\ \A a \in agents : a.creator # e
            /\ \A k \in 1..Len(messages) : messages[k].user_email # e)

\* a user without a row was turned away by a turn and by the handler
NoRowTurnedAway ==
  \E s \in Sessions :
    /\ sess[s].open /\ users[sess[s].email] = NoRow
    /\ turn[s].pc = "returned" /\ turn[s].result = "User not found"
    /\ direct_call.creator_email = sess[s].email
    /\ direct_call.result = "ERROR: User not found"

====
